---- MODULE Spec2Model ----
(***************************************************************************)
(* Model of app.py (ticker_download): a Streamlit script that fetches the  *)
(* price history of a ticker, computes trailing performance, resamples to  *)
(* monthly data and exports the monthly table to an Excel file.            *)
(*                                                                         *)
(* Floats are modelled as exact rationals <<numerator, denominator>> in    *)
(* lowest terms; NaN is <<0, 0>>.  Dates are <<year, month, day>>; time    *)
(* zones are not modelled (tz_localize(None) keeps the wall-clock date).   *)
(* Strings that the code edits character by character are sequences of    *)
(* one-character strings.                                                  *)
(***************************************************************************)
EXTENDS Integers, Sequences, FiniteSets, TLC

VARIABLES
    pc,                    \* position of the script run
    fill_pad,              \* build: pct_change() pads NaN first (pandas 2.x) or not (3.x)
    ticker,                \* st.text_input value
    start_date,            \* st.date_input / argument of prepare_for_export
    end_date,
    first_available_date,
    raw,                   \* the frame as fetch_stock_data returned it (snapshot)
    stock_data_filtered,   \* the caller's frame object (mutated in place)
    performance,           \* the dict calculate_performance returned
    stock_data_monthly,
    export,                \* what the export step produced
    messages,              \* st.error(...) messages shown in this run
    uncaught               \* the exception that ended the run, or "none"

vars == <<pc, fill_pad, ticker, start_date, end_date, first_available_date, raw,
          stock_data_filtered, performance, stock_data_monthly, export, messages,
          uncaught>>

---------------------------------------------------------------------------
(* Bounds of the model *)
MaxPoints == 3
MaxPrice == 2
MaxStrLen == 2
Slack == 1
LongPeriod == 11

(* Lookbacks of calculate_performance *)
Periods1D == 1
Periods1M == 30
Periods1Y == 252
Periods3Y == 252 * 3
Periods5Y == 252 * 5
Periods10Y == 252 * 10

PeriodLabels == {"1D", "1M", "1Y", "3Y", "5Y", "10Y"}

Periods(l) ==
    CASE l = "1D" -> Periods1D
      [] l = "1M" -> Periods1M
      [] l = "1Y" -> Periods1Y
      [] l = "3Y" -> Periods3Y
      [] l = "5Y" -> Periods5Y
      [] l = "10Y" -> Periods10Y

None == [none |-> TRUE]

---------------------------------------------------------------------------
(* Float arithmetic, as exact rationals with NaN *)

RECURSIVE GCD(_, _)
GCD(a, b) == IF b = 0 THEN a ELSE GCD(b, a % b)

Abs(x) == IF x < 0 THEN -x ELSE x

NaN == <<0, 0>>

IsFinite(x) == x[2] # 0

Rat(n, d) ==
    IF d = 0 THEN NaN
    ELSE LET g == GCD(Abs(n), Abs(d))
             s == IF d < 0 THEN -1 ELSE 1
         IN  <<(s * n) \div g, (s * d) \div g>>

Float(n) == <<n, 1>>

FSub(x, y) ==
    IF IsFinite(x) /\ IsFinite(y) THEN Rat(x[1] * y[2] - y[1] * x[2], x[2] * y[2]) ELSE NaN

FMul(x, y) ==
    IF IsFinite(x) /\ IsFinite(y) THEN Rat(x[1] * y[1], x[2] * y[2]) ELSE NaN

FDiv(x, y) ==
    IF IsFinite(x) /\ IsFinite(y) THEN Rat(x[1] * y[2], x[2] * y[1]) ELSE NaN

---------------------------------------------------------------------------
(* Calendar *)

IsLeap(y) == (y % 4 = 0 /\ y % 100 # 0) \/ y % 400 = 0

DaysInMonth(y, m) ==
    IF m = 2 THEN (IF IsLeap(y) THEN 29 ELSE 28)
    ELSE IF m \in {4, 6, 9, 11} THEN 30 ELSE 31

DateLT(a, b) ==
    \/ a[1] < b[1]
    \/ a[1] = b[1] /\ a[2] < b[2]
    \/ a[1] = b[1] /\ a[2] = b[2] /\ a[3] < b[3]

MonthOf(d) == <<d[1], d[2]>>

MonthLE(a, b) == a[1] < b[1] \/ (a[1] = b[1] /\ a[2] <= b[2])

NextMonth(ym) == IF ym[2] = 12 THEN <<ym[1] + 1, 1>> ELSE <<ym[1], ym[2] + 1>>

MonthEnd(ym) == <<ym[1], ym[2], DaysInMonth(ym[1], ym[2])>>

\* proleptic Gregorian day number <-> date
DaysFromCivil(dt) ==
    LET y == IF dt[2] <= 2 THEN dt[1] - 1 ELSE dt[1]
        era == y \div 400
        yoe == y - era * 400
        mp == IF dt[2] > 2 THEN dt[2] - 3 ELSE dt[2] + 9
        doy == (153 * mp + 2) \div 5 + dt[3] - 1
        doe == yoe * 365 + yoe \div 4 - yoe \div 100 + doy
    IN  era * 146097 + doe - 719468

CivilFromDays(n) ==
    LET z == n + 719468
        era == z \div 146097
        doe == z - era * 146097
        yoe == (doe - doe \div 1460 + doe \div 36524 - doe \div 146096) \div 365
        doy == doe - (365 * yoe + yoe \div 4 - yoe \div 100)
        mp == (5 * doy + 2) \div 153
        d == doy - (153 * mp + 2) \div 5 + 1
        m == IF mp < 10 THEN mp + 3 ELSE mp - 9
        y == yoe + era * 400 + (IF m <= 2 THEN 1 ELSE 0)
    IN  <<y, m, d>>

---------------------------------------------------------------------------
(* Data frames: an index, an ordered list of column names, and one value   *)
(* sequence per column.                                                    *)

Range(s) == {s[i] : i \in 1..Len(s)}

DatetimeIndex(dates) == [kind |-> "DatetimeIndex", values |-> dates]

RangeIndex(n) == [kind |-> "RangeIndex", values |-> [i \in 1..n |-> i - 1]]

NRows(df) == Len(df.index.values)

\* df[c] = vals
SetColumn(df, c, vals) ==
    [index |-> df.index,
     columns |-> IF c \in Range(df.columns) THEN df.columns ELSE Append(df.columns, c),
     data |-> [k \in DOMAIN df.data \cup {c} |-> IF k = c THEN vals ELSE df.data[k]]]

\* df[[c1, c2, ...]] : a new frame
SelectColumns(df, cols) ==
    [index |-> df.index,
     columns |-> cols,
     data |-> [k \in Range(cols) |-> df.data[k]]]

\* Series.ffill()
FFill(s) ==
    [i \in 1..Len(s) |->
        IF s[i] # NaN THEN s[i]
        ELSE LET known == {j \in 1..i : s[j] # NaN}
             IN  IF known = {} THEN NaN
                 ELSE s[CHOOSE j \in known : \A k \in known : k <= j]]

\* Series.pct_change(periods): data / data.shift(periods) - 1, on the padded
\* data when the build pads
pct_change(s, periods, pad) ==
    LET data == IF pad THEN FFill(s) ELSE s
    IN  [i \in 1..Len(s) |->
            IF i - periods < 1 THEN NaN
            ELSE FSub(FDiv(data[i], data[i - periods]), Float(1))]

\* Series.iloc[-1]
iloc_last(s) == s[Cardinality(DOMAIN s)]

---------------------------------------------------------------------------
(* calculate_performance(stock_data): returns the frame as the call leaves *)
(* it, the exception raised ("none" if it returns) and the dict returned.  *)

\* a lookback one position too long
trailing_change_off(adj, periods, pad) ==
    FMul(iloc_last(pct_change(adj, periods + 1, pad)), Float(100))

\* (stock_data['Adj Close'].pct_change(periods=p).iloc[-1]) * 100
trailing_change(adj, periods, pad) ==
    FMul(iloc_last(pct_change(adj, periods, pad)), Float(100))

calculate_performance(stock_data, pad) ==
    LET sd == IF "Adj Close" \notin Range(stock_data.columns)
              THEN SetColumn(stock_data, "Adj Close", stock_data.data["Close"])
              ELSE stock_data
        adj == sd.data["Adj Close"]
        trailing == [l \in PeriodLabels |-> trailing_change(adj, Periods(l), pad)]
        january == {i \in 1..NRows(sd) : sd.index.values[i][2] = 1}
    IN  IF january = {}
        THEN [stock_data |-> sd, raised |-> "IndexError", performance |-> None]
        ELSE LET first == CHOOSE i \in january : \A j \in january : i <= j
                 start_of_year == adj[first]
                 ytd == FMul(FDiv(FSub(iloc_last(adj), start_of_year), start_of_year),
                             Float(100))
             IN  [stock_data |-> sd, raised |-> "none",
                  performance |-> [l \in PeriodLabels \cup {"YTD"} |->
                                      IF l = "YTD" THEN ytd ELSE trailing[l]]]

---------------------------------------------------------------------------
(* Strings as character sequences *)

Digit(n) == <<"0", "1", "2", "3", "4", "5", "6", "7", "8", "9">>[n + 1]

Digits2(n) == <<Digit((n \div 10) % 10), Digit(n % 10)>>

Digits4(n) == <<Digit((n \div 1000) % 10), Digit((n \div 100) % 10)>> \o Digits2(n)

MonthAbbr(m) ==
    << <<"J", "a", "n">>, <<"F", "e", "b">>, <<"M", "a", "r">>, <<"A", "p", "r">>,
       <<"M", "a", "y">>, <<"J", "u", "n">>, <<"J", "u", "l">>, <<"A", "u", "g">>,
       <<"S", "e", "p">>, <<"O", "c", "t">>, <<"N", "o", "v">>, <<"D", "e", "c">> >>[m]

\* date.strftime('%b %d, %Y')
strftime(d) == MonthAbbr(d[2]) \o <<" ">> \o Digits2(d[3]) \o <<",", " ">> \o Digits4(d[1])

\* str(datetime.date) = YYYY-MM-DD
isoformat(d) == Digits4(d[1]) \o <<"-">> \o Digits2(d[2]) \o <<"-">> \o Digits2(d[3])

\* what an f-string field renders: a str as it is, a date in ISO form
Format(v) == IF v.kind = "date" THEN isoformat(v.value) ELSE v.value

DateValue(d) == [kind |-> "date", value |-> d]

StrValue(s) == [kind |-> "str", value |-> s]

\* replaces the first occurrence only
replace_first(s, old, new) ==
    [i \in 1..Len(s) |->
        IF s[i] = old /\ (\A j \in 1..(i - 1) : s[j] # old) THEN new ELSE s[i]]

\* str.replace(old, new) for one-character old and new
replace(s, old, new) == [i \in 1..Len(s) |-> IF s[i] = old THEN new ELSE s[i]]

---------------------------------------------------------------------------
(* prepare_for_export(stock_data, ticker, start_date, end_date): returns   *)
(* the frame as the call leaves it, the exception raised, the filename     *)
(* returned and the workbook written.                                      *)

prepare_for_export(stock_data, tick, start, end) ==
    LET name == tick \o <<"_">> \o Format(start) \o <<"_">> \o Format(end)
                    \o <<".", "x", "l", "s", "x">>
        filename == replace(replace(name, ":", "_"), "^", "_")
    IN  IF stock_data.index.kind # "DatetimeIndex"
        THEN [stock_data |-> stock_data, raised |-> "AttributeError",
              filename |-> None, file |-> None]
        ELSE LET dated == SetColumn(stock_data, "Date", stock_data.index.values)
                 reset == [dated EXCEPT !.index = RangeIndex(NRows(dated))]
             IN  [stock_data |-> reset, raised |-> "none", filename |-> filename,
                  file |-> [name |-> filename,
                            sheets |-> << [sheet_name |-> tick,
                                           header |-> reset.columns,
                                           rows |-> NRows(reset)] >>]]

---------------------------------------------------------------------------
(* Monthly resample, lines 142-152 *)

RECURSIVE MonthRange(_, _)
MonthRange(a, b) == IF MonthLE(a, b) THEN <<a>> \o MonthRange(NextMonth(a), b) ELSE <<>>

\* the first valid value of the bin instead of the last
FirstInBin(dates, vals, ym) ==
    LET valid == {i \in 1..Len(dates) : MonthOf(dates[i]) = ym /\ vals[i] # NaN}
    IN  IF valid = {} THEN NaN
        ELSE vals[CHOOSE i \in valid : \A j \in valid : i <= j]

\* the last valid value of a column among the rows of one month bin
LastInBin(dates, vals, ym) ==
    LET valid == {i \in 1..Len(dates) : MonthOf(dates[i]) = ym /\ vals[i] # NaN}
    IN  IF valid = {} THEN NaN
        ELSE vals[CHOOSE i \in valid : \A j \in valid : j <= i]

\* df.resample('ME').last()
resample_ME_last(df) ==
    LET dates == df.index.values
        lo == CHOOSE d \in Range(dates) : \A e \in Range(dates) : ~DateLT(e, d)
        hi == CHOOSE d \in Range(dates) : \A e \in Range(dates) : ~DateLT(d, e)
        bins == IF dates = <<>> THEN <<>> ELSE MonthRange(MonthOf(lo), MonthOf(hi))
    IN  [index |-> DatetimeIndex([b \in 1..Len(bins) |-> MonthEnd(bins[b])]),
         columns |-> df.columns,
         data |-> [c \in DOMAIN df.data |->
                      [b \in 1..Len(bins) |-> LastInBin(dates, df.data[c], bins[b])]]]

\* the change left as a fraction, not a percentage
monthly_fraction(df, pad) ==
    LET resampled == resample_ME_last(df)
        change == pct_change(resampled.data["Adj Close"], 1, pad)
        withChange == SetColumn(resampled, "% Change", change)
    IN  SetColumn(withChange, "Formatted Date",
                  [i \in 1..NRows(resampled) |-> strftime(resampled.index.values[i])])

monthly(df, pad) ==
    LET resampled == resample_ME_last(df)
        change == [i \in 1..NRows(resampled) |->
                      FMul(pct_change(resampled.data["Adj Close"], 1, pad)[i], Float(100))]
        withChange == SetColumn(resampled, "% Change", change)
    IN  SetColumn(withChange, "Formatted Date",
                  [i \in 1..NRows(resampled) |-> strftime(resampled.index.values[i])])

---------------------------------------------------------------------------
(* The provider (yfinance), an opaque collaborator: what one history()     *)
(* call can give back.                                                     *)

DateSet ==
    {<<2023, 1, 30>>, <<2023, 12, 29>>, <<2024, 1, 2>>, <<2024, 1, 31>>, <<2024, 2, 28>>}

Today == <<2024, 3, 15>>

RECURSIVE Ascending(_)
Ascending(S) ==
    IF S = {} THEN <<>>
    ELSE LET d == CHOOSE x \in S : \A y \in S : ~DateLT(y, x)
         IN  <<d>> \o Ascending(S \ {d})

\* a price frame; the provider's adjusted close, when it supplies one, differs
\* from the raw close
Frame(dates, close, hasAdj) ==
    [index |-> DatetimeIndex(dates),
     columns |-> IF hasAdj THEN <<"Close", "Adj Close">> ELSE <<"Close">>,
     data |-> IF hasAdj
              THEN [c \in {"Close", "Adj Close"} |->
                       IF c = "Close" THEN [i \in 1..Len(close) |-> Float(close[i])]
                       ELSE [i \in 1..Len(close) |-> Float(close[i] + 1)]]
              ELSE [c \in {"Close"} |-> [i \in 1..Len(close) |-> Float(close[i])]]]

ShortFrames ==
    {Frame(Ascending(S), close, hasAdj) :
        <<S, close, hasAdj>> \in
            UNION {{S} \X [1..Cardinality(S) -> 1..MaxPrice] \X BOOLEAN :
                        S \in {T \in SUBSET DateSet : Cardinality(T) \in 1..MaxPoints}}}

EmptyFrame == Frame(<<>>, <<>>, FALSE)

Responses ==
    {[kind |-> "raise"]} \cup {[kind |-> "frame", frame |-> f] : f \in ShortFrames \cup {EmptyFrame}}

\* long daily histories, for the lookbacks
LongLengths ==
    {n \in UNION {{Periods(l), Periods(l) + 1, Periods(l) + 1 + Slack} : l \in PeriodLabels} :
        n >= 1}

LongStarts == {<<2023, 11, 20>>, <<2024, 2, 1>>}

LongFrame(start, n, seed, hasAdj) ==
    Frame([i \in 1..n |-> CivilFromDays(DaysFromCivil(start) + i - 1)],
          [i \in 1..n |-> 1 + ((i + seed) % LongPeriod)],
          hasAdj)

LongFrames ==
    {LongFrame(s, n, seed, hasAdj) :
        <<s, n, seed, hasAdj>> \in LongStarts \X LongLengths \X (0..Slack) \X BOOLEAN}

Tickers == {<<"^", "G">>, <<"A">>}

---------------------------------------------------------------------------
(* fetch_stock_data(ticker, start_date, end_date), given what the provider *)
(* gives back for history() and whether stock.info raises.                 *)

fetch_stock_data(tick, resp, infoRaises) ==
    IF resp.kind = "raise" \/ NRows(resp.frame) = 0
    THEN [raised |-> "none",
          errors |-> << [error |-> "Error fetching data", ticker |-> tick] >>,
          value |-> <<None, None, None, None>>]
    ELSE IF infoRaises
    THEN [raised |-> "Exception", errors |-> <<>>, value |-> None]
    ELSE LET stock_data == resp.frame
             dates == stock_data.index.values
             first_date == CHOOSE d \in Range(dates) : \A e \in Range(dates) : ~DateLT(e, d)
         IN  [raised |-> "none", errors |-> <<>>,
              value |-> <<stock_data, "company_name", "company_desc", first_date,
                          "bid_price">>]

---------------------------------------------------------------------------
(* The script, lines 89-193.  Streamlit runs it top to bottom on every     *)
(* interaction; an exception nobody catches ends that run.                 *)

ExportColumns == <<"Formatted Date", "Adj Close", "% Change">>

Blank ==
    /\ start_date = None
    /\ end_date = None
    /\ first_available_date = None
    /\ raw = None
    /\ stock_data_filtered = None
    /\ performance = None
    /\ stock_data_monthly = None
    /\ export = None
    /\ messages = <<>>
    /\ uncaught = "none"

Init ==
    /\ pc = "ended"
    /\ fill_pad \in BOOLEAN
    /\ ticker = <<>>
    /\ Blank

\* a new run: the user has typed a ticker (lines 95-102)
Rerun ==
    /\ pc = "ended"
    /\ \E t \in Tickers \cup {<<>>} :
        /\ ticker' = t
        /\ pc' = IF t = <<>> THEN "ended" ELSE "fetch"
    /\ start_date' = None
    /\ end_date' = None
    /\ first_available_date' = None
    /\ raw' = None
    /\ stock_data_filtered' = None
    /\ performance' = None
    /\ stock_data_monthly' = None
    /\ export' = None
    /\ messages' = <<>>
    /\ uncaught' = "none"
    /\ UNCHANGED fill_pad

\* line 105: the full-range fetch and the unpacking of its result
FetchAll ==
    /\ pc = "fetch"
    /\ \E resp \in Responses, infoRaises \in BOOLEAN :
        LET r == fetch_stock_data(ticker, resp, infoRaises)
        IN  IF r.raised # "none"
            THEN /\ uncaught' = r.raised
                 /\ pc' = "ended"
                 /\ UNCHANGED <<messages, first_available_date>>
            ELSE IF Len(r.value) # 5
            THEN /\ messages' = messages \o r.errors
                 /\ uncaught' = "ValueError"
                 /\ pc' = "ended"
                 /\ UNCHANGED first_available_date
            ELSE /\ messages' = messages \o r.errors
                 /\ first_available_date' = r.value[4]
                 /\ pc' = IF r.value[1] # None THEN "dates" ELSE "ended"
                 /\ UNCHANGED uncaught
    /\ UNCHANGED <<fill_pad, ticker, start_date, end_date, raw, stock_data_filtered,
                   performance, stock_data_monthly, export>>

\* lines 110-111: the two date inputs, left at their default values
SelectDates ==
    /\ pc = "dates"
    /\ start_date' = DateValue(first_available_date)
    /\ end_date' = DateValue(Today)
    /\ pc' = "refetch"
    /\ UNCHANGED <<fill_pad, ticker, first_available_date, raw, stock_data_filtered,
                   performance, stock_data_monthly, export, messages, uncaught>>

\* line 118: the fetch over the selected range and the unpacking of its result
FetchFiltered ==
    /\ pc = "refetch"
    /\ \E resp \in Responses, infoRaises \in BOOLEAN :
        LET r == fetch_stock_data(ticker, resp, infoRaises)
        IN  IF r.raised # "none"
            THEN /\ uncaught' = r.raised
                 /\ pc' = "ended"
                 /\ UNCHANGED <<messages, raw, stock_data_filtered>>
            ELSE IF Len(r.value) # 5
            THEN /\ messages' = messages \o r.errors
                 /\ uncaught' = "ValueError"
                 /\ pc' = "ended"
                 /\ UNCHANGED <<raw, stock_data_filtered>>
            ELSE /\ messages' = messages \o r.errors
                 /\ raw' = r.value[1]
                 /\ stock_data_filtered' = r.value[1]
                 /\ pc' = IF r.value[1] # None THEN "performance" ELSE "ended"
                 /\ UNCHANGED uncaught
    /\ UNCHANGED <<fill_pad, ticker, start_date, end_date, first_available_date,
                   performance, stock_data_monthly, export>>

\* lines 122-139
Performance ==
    /\ pc = "performance"
    /\ LET r == calculate_performance(stock_data_filtered, fill_pad)
       IN  /\ stock_data_filtered' = r.stock_data
           /\ IF r.raised # "none"
              THEN /\ uncaught' = r.raised
                   /\ pc' = "ended"
                   /\ UNCHANGED performance
              ELSE /\ performance' = r.performance
                   /\ pc' = "monthly"
                   /\ UNCHANGED uncaught
    /\ UNCHANGED <<fill_pad, ticker, start_date, end_date, first_available_date, raw,
                   stock_data_monthly, export, messages>>

\* lines 142-170
Monthly ==
    /\ pc = "monthly"
    /\ stock_data_monthly' = monthly(stock_data_filtered, fill_pad)
    /\ pc' = "sidebar"
    /\ UNCHANGED <<fill_pad, ticker, start_date, end_date, first_available_date, raw,
                   stock_data_filtered, performance, export, messages, uncaught>>

\* lines 179-193 with the button clicked
Export ==
    /\ pc = "sidebar"
    /\ LET r == prepare_for_export(SelectColumns(stock_data_monthly, ExportColumns),
                                   ticker, start_date, end_date)
       IN  /\ export' = r
           /\ uncaught' = r.raised
    /\ pc' = "ended"
    /\ UNCHANGED <<fill_pad, ticker, start_date, end_date, first_available_date, raw,
                   stock_data_filtered, performance, stock_data_monthly, messages>>

\* lines 179-186 with the button not clicked
NoExport ==
    /\ pc = "sidebar"
    /\ pc' = "ended"
    /\ UNCHANGED <<fill_pad, ticker, start_date, end_date, first_available_date, raw,
                   stock_data_filtered, performance, stock_data_monthly, export,
                   messages, uncaught>>

Next ==
    \/ Rerun
    \/ FetchAll
    \/ SelectDates
    \/ FetchFiltered
    \/ Performance
    \/ Monthly
    \/ Export
    \/ NoExport

Spec == Init /\ [][Next]_vars

---------------------------------------------------------------------------
(* calculate_performance as a function of its input: every short frame and *)
(* long daily histories around each lookback.                              *)

InitPerf ==
    /\ pc = "performance"
    /\ fill_pad \in BOOLEAN
    /\ ticker = <<"A">>
    /\ start_date = None
    /\ end_date = None
    /\ first_available_date = None
    /\ raw \in LongFrames \cup ShortFrames
    /\ stock_data_filtered = raw
    /\ performance = None
    /\ stock_data_monthly = None
    /\ export = None
    /\ messages = <<>>
    /\ uncaught = "none"

NextPerf == Performance

SpecPerf == InitPerf /\ [][NextPerf]_vars

---------------------------------------------------------------------------
(* prepare_for_export as a function of its string arguments.               *)

Alphabet == {"^", ":", "A"}

RECURSIVE Strings(_)
Strings(n) ==
    IF n = 0 THEN {<<>>}
    ELSE LET shorter == Strings(n - 1)
         IN  shorter \cup {Append(s, c) : s \in shorter, c \in Alphabet}

SampleMonthly ==
    monthly(calculate_performance(
                Frame(<<<<2024, 1, 2>>, <<2024, 2, 28>>>>, <<1, 2>>, FALSE), FALSE).stock_data,
            FALSE)

InitExport ==
    /\ pc = "sidebar"
    /\ fill_pad = FALSE
    /\ \/ /\ ticker \in Strings(MaxStrLen)
          /\ start_date \in {StrValue(s) : s \in Strings(MaxStrLen)}
          /\ end_date \in {StrValue(s) : s \in Strings(1)}
       \/ /\ ticker = <<"^", "G", "S", "P", "C">>
          /\ start_date = StrValue(<<"2", "0", "2", "0", "-", "0", "1", "-", "0", "1">>)
          /\ end_date = StrValue(<<"2", "0", "2", "0", ":", "1", "2", ":", "3", "1">>)
    /\ first_available_date = None
    /\ raw = None
    /\ stock_data_filtered = None
    /\ performance = None
    /\ stock_data_monthly = SampleMonthly
    /\ export = None
    /\ messages = <<>>
    /\ uncaught = "none"

NextExport == Export

SpecExport == InitExport /\ [][NextExport]_vars

---------------------------------------------------------------------------
(* Properties *)

AllLabels == PeriodLabels \cup {"YTD"}

Hundred == Float(100)

\* PricePoint.adjustedClose of the series the provider returned
adjustedClose(frame) ==
    IF "Adj Close" \in Range(frame.columns) THEN frame.data["Adj Close"]
    ELSE frame.data["Close"]

\* calculate_performance has been called on raw and has returned or raised
PerformanceCalled == raw # None /\ pc # "performance"

PerformanceReturned == performance # None

MonthlyReady == stock_data_monthly # None

Exported == export # None

SameFrame(a, b) ==
    /\ a.columns = b.columns
    /\ a.index.kind = b.index.kind
    /\ a.index.values = b.index.values
    /\ a.data = b.data

\* C1: a failed fetch (empty record set or an exception of the provider) is
\* reported as a message and no uncaught exception ends the run.
C1_FetchFailureNotFatal == messages # <<>> => uncaught = "none"

\* C2: for a non-empty series of length N and every lookback L with N < L+1 the
\* label carries the insufficient-history marker, and the call never throws: all
\* seven labels are returned whatever the dates of the series are.
C2_InsufficientHistoryNeverThrows ==
    PerformanceCalled =>
        /\ uncaught = "none"
        /\ DOMAIN performance = AllLabels
        /\ \A l \in PeriodLabels :
              NRows(raw) < Periods(l) + 1 => performance[l] = NaN

\* C3: YTD is measured from the earliest point of the calendar year of the last
\* point, and is 0 when the last point is the only point of its year.
C3_YtdFromFirstPointOfLastYear ==
    PerformanceReturned =>
        LET dates == raw.index.values
            a == adjustedClose(raw)
            n == NRows(raw)
            inYear == {i \in 1..n : dates[i][1] = dates[n][1]}
            firstOfYear == CHOOSE i \in inYear : \A j \in inYear : i <= j
        IN  /\ performance["YTD"] =
                  FMul(FDiv(FSub(a[n], a[firstOfYear]), a[firstOfYear]), Hundred)
            /\ inYear = {n} => performance["YTD"] = Float(0)

\* C4: for every label whose lookback L satisfies N >= L+1 the reported value is
\* (adjustedClose[last] - adjustedClose[last-L]) / adjustedClose[last-L] * 100,
\* L counting positions of the series.
C4_TrailingChangeByPosition ==
    PerformanceReturned =>
        LET a == adjustedClose(raw)
            n == NRows(raw)
        IN  \A l \in PeriodLabels :
                n >= Periods(l) + 1 =>
                    performance[l] =
                        FMul(FDiv(FSub(a[n], a[n - Periods(l)]), a[n - Periods(l)]), Hundred)

C4_Witness ==
    /\ PerformanceReturned
    /\ NRows(raw) >= Periods10Y + 1
    /\ \A l \in PeriodLabels : performance[l] \notin {NaN, Float(0)}

InputMonths == {MonthOf(raw.index.values[i]) : i \in 1..NRows(raw)}

PointsIn(ym) == {i \in 1..NRows(raw) : MonthOf(raw.index.values[i]) = ym}

LastPointIn(ym) ==
    CHOOSE i \in PointsIn(ym) :
        \A j \in PointsIn(ym) : ~DateLT(raw.index.values[i], raw.index.values[j])

IsLastDayOfMonth(d) == CivilFromDays(DaysFromCivil(d) + 1)[3] = 1

ChronologicalMonths(idx) ==
    \A i, j \in 1..Len(idx) : i < j => DateLT(idx[i], idx[j]) /\ MonthOf(idx[i]) # MonthOf(idx[j])

\* C5 as stated: one entry per month that has input points and none for a month
\* without, in chronological order, each entry carrying the date and the adjusted
\* close of the input point with the maximum date of its month.
C5_OneEntryPerObservedMonth ==
    MonthlyReady =>
        LET idx == stock_data_monthly.index.values
            adj == stock_data_monthly.data["Adj Close"]
        IN  /\ {MonthOf(idx[i]) : i \in 1..Len(idx)} = InputMonths
            /\ ChronologicalMonths(idx)
            /\ \A i \in 1..Len(idx) :
                  LET p == LastPointIn(MonthOf(idx[i]))
                  IN  /\ idx[i] = raw.index.values[p]
                      /\ adj[i] = adjustedClose(raw)[p]

\* C5 amended: one entry per calendar month from the month of the first input
\* point to the month of the last, in chronological order; each entry is dated
\* the last calendar day of its month and carries the adjusted close of the input
\* point with the maximum date of that month, or null if the month has no point.
C5_OneEntryPerCalendarMonth ==
    MonthlyReady =>
        LET idx == stock_data_monthly.index.values
            adj == stock_data_monthly.data["Adj Close"]
            lo == MonthOf(raw.index.values[1])
            hi == MonthOf(raw.index.values[NRows(raw)])
            span == {ym \in (lo[1]..hi[1]) \X (1..12) : MonthLE(lo, ym) /\ MonthLE(ym, hi)}
        IN  /\ {MonthOf(idx[i]) : i \in 1..Len(idx)} = span
            /\ ChronologicalMonths(idx)
            /\ \A i \in 1..Len(idx) :
                  /\ IsLastDayOfMonth(idx[i])
                  /\ adj[i] = IF PointsIn(MonthOf(idx[i])) = {} THEN NaN
                              ELSE adjustedClose(raw)[LastPointIn(MonthOf(idx[i]))]

C5_Witness ==
    /\ MonthlyReady
    /\ \E ym \in InputMonths :
          /\ Cardinality(PointsIn(ym)) >= 2
          /\ \E i \in PointsIn(ym) :
                adjustedClose(raw)[i] # adjustedClose(raw)[LastPointIn(ym)]
    /\ \E i \in 1..NRows(stock_data_monthly) :
          stock_data_monthly.data["Adj Close"][i] = NaN

\* C6 as stated: entry 0 has a null percentChange and every later entry has the
\* change against the immediately preceding monthly entry; a series within one
\* calendar month gives one entry with a null percentChange.
C6_ChangeAgainstPrecedingEntry ==
    MonthlyReady =>
        LET adj == stock_data_monthly.data["Adj Close"]
            chg == stock_data_monthly.data["% Change"]
            n == NRows(stock_data_monthly)
        IN  /\ n >= 1
            /\ chg[1] = NaN
            /\ \A i \in 2..n :
                  chg[i] = FMul(FDiv(FSub(adj[i], adj[i - 1]), adj[i - 1]), Hundred)
            /\ Cardinality(InputMonths) = 1 => n = 1

\* C6 amended: entry 0 has a null percentChange; every later entry whose own
\* adjusted close and that of the preceding entry are both present has the change
\* against the preceding entry; a series within one calendar month gives one
\* entry with a null percentChange.
C6_ChangeBetweenPresentEntries ==
    MonthlyReady =>
        LET adj == stock_data_monthly.data["Adj Close"]
            chg == stock_data_monthly.data["% Change"]
            n == NRows(stock_data_monthly)
        IN  /\ n >= 1
            /\ chg[1] = NaN
            /\ \A i \in 2..n :
                  (adj[i] # NaN /\ adj[i - 1] # NaN) =>
                      chg[i] = FMul(FDiv(FSub(adj[i], adj[i - 1]), adj[i - 1]), Hundred)
            /\ Cardinality(InputMonths) = 1 => n = 1

C6_Witness ==
    /\ MonthlyReady
    /\ \E i \in 2..NRows(stock_data_monthly) :
          /\ stock_data_monthly.data["Adj Close"][i] # NaN
          /\ stock_data_monthly.data["Adj Close"][i - 1] # NaN
          /\ stock_data_monthly.data["% Change"][i] \notin {NaN, Float(0)}

\* C7: when no record has an adjusted close, every point gets adjustedClose =
\* close and the result carries usedCloseFallback = true; when the adjusted close
\* is supplied it is left as it is and the flag is false.
C7_FallbackIsFlagged ==
    PerformanceReturned =>
        /\ stock_data_filtered.data["Adj Close"] = adjustedClose(raw)
        /\ "usedCloseFallback" \in DOMAIN performance
        /\ performance["usedCloseFallback"] = ("Adj Close" \notin Range(raw.columns))

\* C8: the filename is "{symbol}_{start}_{end}.xlsx" with every ':' and '^'
\* replaced by '_' and every other character unchanged in place.
C8_FilenameSanitized ==
    Exported =>
        LET name == ticker \o <<"_">> \o start_date.value \o <<"_">> \o end_date.value
                        \o <<".", "x", "l", "s", "x">>
            out == export.filename
        IN  /\ Len(out) = Len(name)
            /\ \A i \in 1..Len(name) :
                  out[i] = IF name[i] \in {":", "^"} THEN "_" ELSE name[i]

C8_Witness ==
    /\ Exported
    /\ ticker = <<"^", "G", "S", "P", "C">>
    /\ export.filename =
          <<"_", "G", "S", "P", "C", "_", "2", "0", "2", "0", "-", "0", "1", "-", "0", "1",
            "_", "2", "0", "2", "0", "_", "1", "2", "_", "3", "1", ".", "x", "l", "s", "x">>

\* C9: an export writes one sheet, named after the ticker, whose columns are
\* exactly Formatted Date, Adj Close, % Change, with one row per monthly entry.
C9_SheetColumns ==
    (Exported /\ export.raised = "none") =>
        /\ Len(export.file.sheets) = 1
        /\ export.file.sheets[1].sheet_name = ticker
        /\ export.file.sheets[1].header = ExportColumns
        /\ export.file.sheets[1].rows = NRows(stock_data_monthly)

\* C10: calculate_performance and prepare_for_export leave the series passed to
\* them unchanged: same columns, same index, same values.
C10_ArgumentsUnchanged ==
    /\ PerformanceCalled => SameFrame(stock_data_filtered, raw)
    /\ Exported =>
          SameFrame(export.stock_data, SelectColumns(stock_data_monthly, ExportColumns))

====
